---- MODULE Spec2Model ----
(***************************************************************************)
(* A model of the Fattura Elettronica extractors:                          *)
(*   src/fattura_elettronica_parser.py           (parse_fattura and        *)
(*                                                its helpers)             *)
(*   src/fattura_elettronica_parser_advanced.py  (InvoiceProcessor)        *)
(*                                                                         *)
(* Python strings are sequences of one-character strings; a few long       *)
(* texts that the code never looks into (a tag's local name, a namespace   *)
(* URI, a file name) are single atoms of such a sequence.  Python values   *)
(* (str, number, None, dict, list) are records of one shape, see Val.      *)
(***************************************************************************)
EXTENDS Integers, Sequences, FiniteSets, TLC

VARIABLES
    \* format_date / parse_date / normalize_date
    date_str,       \* the text of the Data element
    date_basic,     \* what format_date returned for it
    date_advanced,  \* document.date after parse_date and normalize_date
    \* parse_float
    number_str,     \* the text of an element that holds a number
    number_basic,   \* what parse_float of the basic parser returned for it
    number_advanced,\* what InvoiceProcessor.parse_float returned for it
    \* normalize_data
    raw_record,     \* the dict handed to normalize_data
    normalized,     \* what normalize_data returned for it
    \* clean_data
    data,           \* the value handed to clean_data
    cleaned,        \* clean_data(data)
    cleaned_twice,  \* clean_data(clean_data(data))
    \* one invoice document through both parsers
    invoice,        \* the logical invoice
    fattura_plain,  \* parse_fattura of the document written with no namespace
    fattura_ns,     \* parse_fattura of the document written in a namespace
    advanced,       \* the result of process_single on the document
    \* one run of InvoiceProcessor.process_files
    pc,             \* "discover", "map" or "done"
    files,          \* the paths process_files was given
    next_file,      \* the index in files that the discovery loop is at
    tmp_dirs,       \* the directories under tempfile.gettempdir()
    tmp_files,      \* the files under tempfile.gettempdir(), by path
    xml_files,      \* the candidates discovered so far
    queue,          \* pool.map: the chunks of task indices no worker has taken
    workers,        \* pool.map: each worker's chunk and its copy of error_stats
    results,        \* pool.map: the result of each task, NoResult until it is in
    error_stats,    \* error_stats of the processor process_files was called on
    output_file,    \* what generate_output wrote
    error_file,     \* what generate_error_report wrote
    returned        \* what process_files returned

dateVars == <<date_str, date_basic, date_advanced>>
cleanVars == <<data, cleaned, cleaned_twice>>
fatturaVars == <<invoice, fattura_plain, fattura_ns, advanced>>
batchVars == <<pc, files, next_file, tmp_dirs, tmp_files, xml_files, queue,
               workers, results, error_stats, output_file, error_file, returned>>
numberVars == <<number_str, number_basic, number_advanced>>
normVars == <<raw_record, normalized>>
vars == <<dateVars, cleanVars, fatturaVars, batchVars, numberVars, normVars>>

(***************************************************************************)
(* Python values                                                           *)
(***************************************************************************)
\* A float or an int: m / 10^e, with no trailing zero in m unless e = 0.
Float(m, e) == [m |-> m, e |-> e]
Zero == Float(0, 0)

Val(t, n, s, kids) == [t |-> t, n |-> n, s |-> s, kids |-> kids]
PyNone == Val("none", Zero, <<>>, <<>>)
PyStr(s) == Val("str", Zero, s, <<>>)
PyNum(f) == Val("num", f, <<>>, <<>>)
\* kids of a dict: its items in insertion order, each [k |-> key, v |-> value]
PyDict(items) == Val("dict", Zero, <<>>, items)
\* kids of a list: its elements, each [k |-> "", v |-> element]
PyList(elems) == Val("list", Zero, <<>>, elems)
Item(k, v) == [k |-> k, v |-> v]
\* a variable of a specification that has not run yet
Unset == Val("unset", Zero, <<>>, <<>>)

(***************************************************************************)
(* str methods                                                             *)
(***************************************************************************)
Whitespace == {" ", "\t", "\n"}

RECURSIVE LStrip(_)
LStrip(s) == IF s # <<>> /\ Head(s) \in Whitespace THEN LStrip(Tail(s)) ELSE s

RECURSIVE RStrip(_)
RStrip(s) ==
    IF s # <<>> /\ s[Len(s)] \in Whitespace
    THEN RStrip(SubSeq(s, 1, Len(s) - 1))
    ELSE s

\* the mutant: nothing is stripped
StripNothing(s) == s

\* str.strip()
Strip(s) == RStrip(LStrip(s))

DigitChars == <<"0", "1", "2", "3", "4", "5", "6", "7", "8", "9">>
IsDigit(c) == \E i \in 1..10 : DigitChars[i] = c
DigitVal(c) == (CHOOSE i \in 1..10 : DigitChars[i] = c) - 1
DigitChar(n) == DigitChars[n + 1]

(***************************************************************************)
(* datetime.strptime(date_str, '%Y-%m-%d'), .date().isoformat() and        *)
(* .strftime('%Y-%m-%d'), as format_date, parse_date and normalize_date    *)
(* call them.  strptime matches the regular expression                     *)
(*   (\d\d\d\d)-(1[0-2]|0[1-9]|[1-9])-(3[01]|[12]\d|0[1-9]|[1-9]| [1-9])   *)
(* at the start of the text, raises ValueError when text remains after the *)
(* match, and raises ValueError when the day is not a day of the month.    *)
(***************************************************************************)
NonZeroDigit(c) == IsDigit(c) /\ c # "0"

\* the alternatives of %m that match at p, as lengths, in the order tried
MonthAlts(s, p) ==
    (IF p + 1 <= Len(s) /\ s[p] = "1" /\ s[p + 1] \in {"0", "1", "2"}
     THEN <<2>> ELSE <<>>)
    \o (IF p + 1 <= Len(s) /\ s[p] = "0" /\ NonZeroDigit(s[p + 1])
        THEN <<2>> ELSE <<>>)
    \o (IF p <= Len(s) /\ NonZeroDigit(s[p]) THEN <<1>> ELSE <<>>)

\* the alternatives of %d that match at p
DayAlts(s, p) ==
    (IF p + 1 <= Len(s) /\ s[p] = "3" /\ s[p + 1] \in {"0", "1"}
     THEN <<2>> ELSE <<>>)
    \o (IF p + 1 <= Len(s) /\ s[p] \in {"1", "2"} /\ IsDigit(s[p + 1])
        THEN <<2>> ELSE <<>>)
    \o (IF p + 1 <= Len(s) /\ s[p] = "0" /\ NonZeroDigit(s[p + 1])
        THEN <<2>> ELSE <<>>)
    \o (IF p <= Len(s) /\ NonZeroDigit(s[p]) THEN <<1>> ELSE <<>>)
    \o (IF p + 1 <= Len(s) /\ s[p] = " " /\ NonZeroDigit(s[p + 1])
        THEN <<2>> ELSE <<>>)

\* int() of the digits (and blanks) of s[p .. p+n-1]
RECURSIVE IntAt(_, _, _)
IntAt(s, p, n) ==
    IF n = 0 THEN 0
    ELSE 10 * IntAt(s, p, n - 1)
         + (IF IsDigit(s[p + n - 1]) THEN DigitVal(s[p + n - 1]) ELSE 0)

IsLeap(y) == y % 4 = 0 /\ (y % 100 # 0 \/ y % 400 = 0)
DaysInMonth(y, m) ==
    IF m = 2 THEN (IF IsLeap(y) THEN 29 ELSE 28)
    ELSE IF m \in {4, 6, 9, 11} THEN 30 ELSE 31

NoDate == [ok |-> FALSE, y |-> 0, m |-> 0, d |-> 0]

\* NoDate stands for the ValueError
Strptime(s) ==
    IF ~(Len(s) >= 5 /\ (\A i \in 1..4 : IsDigit(s[i])) /\ s[5] = "-")
    THEN NoDate
    ELSE LET Follows(ml) == /\ 6 + ml <= Len(s)
                            /\ s[6 + ml] = "-"
                            /\ DayAlts(s, 7 + ml) # <<>>
             months == SelectSeq(MonthAlts(s, 6), Follows)
         IN  IF months = <<>> THEN NoDate
             ELSE LET ml == Head(months)
                      dl == Head(DayAlts(s, 7 + ml))
                      y == IntAt(s, 1, 4)
                      m == IntAt(s, 6, ml)
                      d == IntAt(s, 7 + ml, dl)
                  IN  IF /\ 6 + ml + dl = Len(s)
                         /\ y >= 1
                         /\ d <= DaysInMonth(y, m)
                      THEN [ok |-> TRUE, y |-> y, m |-> m, d |-> d]
                      ELSE NoDate

Pad2(n) == <<DigitChar(n \div 10), DigitChar(n % 10)>>
Pad4(n) == Pad2(n \div 100) \o Pad2(n % 100)
\* date.isoformat(); strftime('%Y-%m-%d') gives the same text for the years
\* of four digits that the model's dates have
IsoFormat(dt) == Pad4(dt.y) \o <<"-">> \o Pad2(dt.m) \o <<"-">> \o Pad2(dt.d)

\* fattura_elettronica_parser.format_date
format_date(s) ==
    LET dt == Strptime(s) IN IF dt.ok THEN PyStr(IsoFormat(dt)) ELSE PyStr(s)

\* InvoiceProcessor.parse_date
parse_date(s) ==
    LET dt == Strptime(s) IN IF dt.ok THEN PyStr(IsoFormat(dt)) ELSE PyNone

\* InvoiceProcessor.normalize_date
normalize_date(v) ==
    IF v.t = "str"
    THEN LET dt == Strptime(v.s) IN IF dt.ok THEN PyStr(IsoFormat(dt)) ELSE v
    ELSE v

(***************************************************************************)
(* The texts a Data element holds in the model                             *)
(***************************************************************************)
DateTexts ==
    LET Years == {<<"2", "0", "2", "4">>, <<"2", "0", "2", "3">>, <<"0", "0", "0", "0">>}
        Months == {<<"0", "3">>, <<"3">>, <<"1", "3">>, <<"0", "2">>, <<"1", "2">>}
        Days == {<<"1", "5">>, <<"5">>, <<" ", "5">>, <<"2", "9">>, <<"3", "1">>,
                 <<"0", "0">>}
        Separators == {"-", "/"}
    IN  {y \o <<sep>> \o m \o <<sep>> \o d :
            y \in Years, m \in Months, d \in Days, sep \in Separators}
        \cup {d \o <<sep>> \o m \o <<sep>> \o y :
            y \in Years, m \in Months, d \in Days, sep \in Separators}
        \cup {<<>>, <<"a", "b", "c">>,
              <<"2", "0", "2", "4", "-", "0", "3", "-", "1", "5", " ">>}

DateIdle == date_str = <<>> /\ date_basic = Unset /\ date_advanced = Unset

InitDate ==
    /\ date_str \in DateTexts
    /\ date_basic = Unset
    /\ date_advanced = Unset

\* extract_dati_generali: 'date': format_date(get_text(dati_gen, ns('Data')))
FormatDate ==
    /\ date_basic = Unset
    /\ date_basic' = format_date(date_str)
    /\ UNCHANGED <<date_str, date_advanced>>

\* parse_document: 'date': self.parse_date(...), then normalize_data:
\* normalized['document']['date'] = self.normalize_date(...)
ParseAndNormalizeDate ==
    /\ date_advanced = Unset
    /\ date_advanced' = normalize_date(parse_date(date_str))
    /\ UNCHANGED <<date_str, date_basic>>

(***************************************************************************)
(* float(value.replace(',', '.')) and int(value), as parse_float and       *)
(* parse_int call them, over the texts of the model: blanks, a sign,       *)
(* digits, dots and commas, and letters that belong to no number (the      *)
(* model has no text with an exponent, an underscore, "inf" or "nan").     *)
(***************************************************************************)
\* str.replace(old, new): every occurrence
Replace(s, old, new) == [i \in 1..Len(s) |-> IF s[i] = old THEN new ELSE s[i]]

AllDigits(s) == \A i \in 1..Len(s) : IsDigit(s[i])

RECURSIVE Pow10(_)
Pow10(n) == IF n = 0 THEN 1 ELSE 10 * Pow10(n - 1)

RECURSIVE Normalized(_, _)
Normalized(m, e) ==
    IF e > 0 /\ m % 10 = 0 THEN Normalized(m \div 10, e - 1) ELSE Float(m, e)

NoNumber == [ok |-> FALSE, f |-> Zero]

\* the text without its sign, and the sign
Unsigned(s) == IF s # <<>> /\ Head(s) \in {"+", "-"} THEN Tail(s) ELSE s
Sign(s) == IF s # <<>> /\ Head(s) = "-" THEN -1 ELSE 1

\* float(s): NoNumber stands for the ValueError
PyFloat(s) ==
    LET u == Unsigned(Strip(s))
        dots == {i \in 1..Len(u) : u[i] = "."}
    IN  IF Cardinality(dots) > 1 THEN NoNumber
        ELSE LET d == IF dots = {} THEN Len(u) + 1 ELSE CHOOSE i \in dots : TRUE
                 ip == SubSeq(u, 1, d - 1)
                 fp == SubSeq(u, d + 1, Len(u))
             IN  IF AllDigits(ip) /\ AllDigits(fp) /\ Len(ip) + Len(fp) > 0
                 THEN [ok |-> TRUE,
                       f |-> Normalized(
                                Sign(Strip(s)) * (IntAt(ip, 1, Len(ip)) * Pow10(Len(fp))
                                                  + IntAt(fp, 1, Len(fp))),
                                Len(fp))]
                 ELSE NoNumber

\* int(s)
PyInt(s) ==
    LET u == Unsigned(Strip(s))
    IN  IF u # <<>> /\ AllDigits(u)
        THEN [ok |-> TRUE, f |-> Float(Sign(Strip(s)) * IntAt(u, 1, Len(u)), 0)]
        ELSE NoNumber

\* parse_float (both parsers have the same body)
parse_float(value) ==
    IF value = <<>> THEN Zero
    ELSE LET r == PyFloat(Replace(value, ",", ".")) IN IF r.ok THEN r.f ELSE Zero

\* parse_int (both parsers have the same body)
parse_int(value) ==
    IF value = <<>> THEN Zero
    ELSE LET r == PyInt(value) IN IF r.ok THEN r.f ELSE Zero

\* The texts parse_float is tried on: a sign or none, an integer part with
\* or without a dot after its thousands, a decimal part after a comma or a
\* dot or none; and texts that are no number.
NumberTexts ==
    LET Signs == {<<>>, <<"-">>}
        IntParts == {<<>>, <<"0">>, <<"7">>, <<"1", "2", "3", "4">>,
                     <<"1", ".", "2", "3", "4">>}
        DecParts == {<<>>, <<",">>, <<",", "5", "6">>, <<".", "5", "6">>,
                     <<",", "5", "0">>, <<",", "0">>}
    IN  {sg \o ip \o dp : sg \in Signs, ip \in IntParts, dp \in DecParts}
        \cup {<<"a", "b", "c">>, <<" ">>, <<" ", "7", " ">>,
              <<"1", ",", "2", ",", "3">>, <<"1", "2", "a">>}

NumberIdle == number_str = <<>> /\ number_basic = Unset /\ number_advanced = Unset

InitNumber ==
    /\ number_str \in NumberTexts
    /\ number_basic = Unset
    /\ number_advanced = Unset

\* parse_float of the basic parser on the text
ParseFloatBasic ==
    /\ number_basic = Unset
    /\ number_basic' = PyNum(parse_float(number_str))
    /\ UNCHANGED <<number_str, number_advanced>>

\* InvoiceProcessor.parse_float on the text
ParseFloatAdvanced ==
    /\ number_advanced = Unset
    /\ number_advanced' = PyNum(parse_float(number_str))
    /\ UNCHANGED <<number_str, number_basic>>

(***************************************************************************)
(* XML elements and xml.etree.ElementTree's find and findall               *)
(*                                                                         *)
(* An element is [tag, text, kids]; its tag is "{uri}local" as the         *)
(* sequence <<"{", uri, "}", local>>, or <<local>> when the element has    *)
(* no namespace.  text = <<>> stands for both None and ''.                 *)
(***************************************************************************)
El(tag, text, kids) == [tag |-> tag, text |-> text, kids |-> kids]

RECURSIVE Concat(_)
Concat(ss) == IF ss = <<>> THEN <<>> ELSE Head(ss) \o Concat(Tail(ss))

\* Element.iter(): the element and its descendants in document order
RECURSIVE Iter(_)
Iter(e) == <<e>> \o Concat([i \in 1..Len(e.kids) |-> Iter(e.kids[i])])

\* A location step: axis "child" (tag, or /tag) or "desc" (//tag).
Child(tag) == [axis |-> "child", tag |-> tag]
Desc(tag) == [axis |-> "desc", tag |-> tag]

TagMatches(e, tag) == tag = <<"*">> \/ e.tag = tag

StepFrom(e, step) ==
    IF step.axis = "child"
    THEN SelectSeq(e.kids, LAMBDA k : TagMatches(k, step.tag))
    ELSE SelectSeq(Tail(Iter(e)), LAMBDA k : TagMatches(k, step.tag))

\* ElementPath.iterfind: each step is applied to every element the steps
\* before it selected, in order
RECURSIVE FindAll(_, _)
FindAll(elems, path) ==
    IF path = <<>> THEN elems
    ELSE FindAll(Concat([i \in 1..Len(elems) |-> StepFrom(elems[i], Head(path))]),
                 Tail(path))

\* Element.findall(path) and Element.find(path); <<>> stands for None
findall(e, path) == FindAll(<<e>>, path)
find(e, path) == LET r == findall(e, path) IN IF r = <<>> THEN <<>> ELSE <<Head(r)>>

(***************************************************************************)
(* clean_data                                                              *)
(***************************************************************************)
\* v not in ['', None, 0]
IsPruned(v) ==
    \/ v.t = "str" /\ v.s = <<>>
    \/ v.t = "none"
    \/ v.t = "num" /\ v.n.m = 0

RECURSIVE clean_data(_)
clean_data(v) ==
    IF v.t = "dict"
    THEN PyDict([i \in 1..Len(SelectSeq(v.kids, LAMBDA it : ~IsPruned(it.v))) |->
                   LET it == SelectSeq(v.kids, LAMBDA x : ~IsPruned(x.v))[i]
                   IN  Item(it.k, clean_data(it.v))])
    ELSE IF v.t = "list"
    THEN PyList([i \in 1..Len(v.kids) |-> Item("", clean_data(v.kids[i].v))])
    ELSE IF v.t = "str"
    THEN PyStr(Strip(v.s))
    ELSE v

\* The values clean_data is tried on: leaves, containers of leaves, and
\* containers of those.
MaxListLen == 1
Leaves ==
    {PyStr(<<>>), PyStr(<<" ">>), PyStr(<<"a", " ">>), PyNone,
     PyNum(Zero), PyNum(Float(5, 0))}

\* the dicts over the keys k1, k2 (in that order) with values in S
DictsOver(S) ==
    {PyDict(<<>>)}
    \cup {PyDict(<<Item(k, v)>>) : k \in {"k1", "k2"}, v \in S}
    \cup {PyDict(<<Item("k1", v), Item("k2", w)>>) : v \in S, w \in S}

ListsOver(S) ==
    UNION {{PyList([i \in 1..n |-> Item("", f[i])]) : f \in [1..n -> S]} :
             n \in 0..MaxListLen}

Level2 ==
    LET Level1 == Leaves \cup DictsOver(Leaves) \cup ListsOver(Leaves)
    IN  Level1 \cup DictsOver(Level1) \cup ListsOver(Level1)

CleanIdle == data = Unset /\ cleaned = Unset /\ cleaned_twice = Unset

InitClean ==
    /\ data \in Level2
    /\ cleaned = Unset
    /\ cleaned_twice = Unset

CleanOnce ==
    /\ cleaned = Unset
    /\ cleaned' = clean_data(data)
    /\ UNCHANGED <<data, cleaned_twice>>

CleanTwice ==
    /\ cleaned # Unset
    /\ cleaned_twice = Unset
    /\ cleaned_twice' = clean_data(cleaned)
    /\ UNCHANGED <<data, cleaned>>

(***************************************************************************)
(* fattura_elettronica_parser.py: parse_fattura and its section extractors *)
(***************************************************************************)
\* str.split(sep)[0]
BeforeFirst(s, sep) ==
    IF \E i \in 1..Len(s) : s[i] = sep
    THEN SubSeq(s, 1, (CHOOSE i \in 1..Len(s) :
                          s[i] = sep /\ \A j \in 1..(i - 1) : s[j] # sep) - 1)
    ELSE s

\* str.strip(chars) for one character
RECURSIVE StripChar(_, _)
StripChar(s, c) ==
    IF s # <<>> /\ Head(s) = c THEN StripChar(Tail(s), c)
    ELSE IF s # <<>> /\ s[Len(s)] = c THEN StripChar(SubSeq(s, 1, Len(s) - 1), c)
    ELSE s

\* parse_fattura: namespace = root.tag.split("}")[0].strip("{") + "}"
Namespace(root_tag) ==
    IF root_tag # <<>> /\ Head(root_tag) = "{"
    THEN StripChar(BeforeFirst(root_tag, "}"), "{") \o <<"}">>
    ELSE <<>>

\* parse_fattura: ns = lambda tag: f'{{{namespace}}}{tag}' if namespace else tag
\* (the path tokenizer of ElementPath keeps "{...}" and what follows it, up
\* to the next "/", as the one tag of the step)
ns(namespace, tag) ==
    IF namespace # <<>> THEN <<"{">> \o namespace \o <<"}">> \o <<tag>> ELSE <<tag>>

get_text(element, path) ==
    LET el == find(element, path)
    IN  IF el # <<>> /\ el[1].text # <<>> THEN Strip(el[1].text) ELSE <<>>

extract_anagrafica(root, nsp, section) ==
    LET element == find(root, <<Desc(ns(nsp, "FatturaElettronicaHeader")),
                                Child(ns(nsp, section))>>)
    IN  IF element = <<>> THEN PyDict(<<>>)
        ELSE
        LET e == element[1]
            T(a, b) == get_text(e, <<Child(ns(nsp, a)), Child(ns(nsp, b))>>)
            denominazione == T("Anagrafica", "Denominazione")
            nome == T("Anagrafica", "Nome")
            cognome == T("Anagrafica", "Cognome")
            name == IF denominazione = <<>>
                    THEN Strip(nome \o <<" ">> \o cognome)
                    ELSE denominazione
        IN  clean_data(PyDict(<<
                Item("name", PyStr(name)),
                Item("fiscal_code", PyStr(get_text(e, <<Child(ns(nsp, "CodiceFiscale"))>>))),
                Item("vat_number", PyStr(T("IdFiscaleIVA", "IdCodice"))),
                Item("address", PyDict(<<
                    Item("street", PyStr(T("Sede", "Indirizzo"))),
                    Item("postal_code", PyStr(T("Sede", "CAP"))),
                    Item("city", PyStr(T("Sede", "Comune"))),
                    Item("province", PyStr(T("Sede", "Provincia"))),
                    Item("country", PyStr(T("Sede", "Nazione")))>>))>>))

extract_dati_generali(root, nsp) ==
    LET dati_gen == find(root, <<Desc(ns(nsp, "FatturaElettronicaBody")),
                                 Child(ns(nsp, "DatiGenerali")),
                                 Child(ns(nsp, "DatiGeneraliDocumento"))>>)
    IN  IF dati_gen = <<>> THEN PyDict(<<>>)
        ELSE
        LET T(a) == get_text(dati_gen[1], <<Child(ns(nsp, a))>>)
        IN  clean_data(PyDict(<<
                Item("type", PyStr(T("TipoDocumento"))),
                Item("number", PyStr(T("Numero"))),
                Item("date", format_date(T("Data"))),
                Item("currency", PyStr(T("Divisa"))),
                Item("total_amount", PyNum(parse_float(T("ImportoTotaleDocumento"))))>>))

\* the mutant: the items are numbered by their place in the list
extract_line_items_renumbered(root, nsp) ==
    LET lines == findall(root, <<Desc(ns(nsp, "FatturaElettronicaBody")),
                                 Desc(ns(nsp, "DettaglioLinee"))>>)
        T(line, a) == get_text(line, <<Child(ns(nsp, a))>>)
    IN  PyList([i \in 1..Len(lines) |-> Item("", clean_data(PyDict(<<
            Item("line_number", PyNum(Float(i, 0))),
            Item("description", PyStr(T(lines[i], "Descrizione"))),
            Item("total_price", PyNum(parse_float(T(lines[i], "PrezzoTotale"))))>>)))])

extract_line_items(root, nsp) ==
    LET lines == findall(root, <<Desc(ns(nsp, "FatturaElettronicaBody")),
                                 Desc(ns(nsp, "DettaglioLinee"))>>)
        T(line, a) == get_text(line, <<Child(ns(nsp, a))>>)
    IN  PyList([i \in 1..Len(lines) |-> Item("", clean_data(PyDict(<<
            Item("line_number", PyNum(parse_int(T(lines[i], "NumeroLinea")))),
            Item("description", PyStr(T(lines[i], "Descrizione"))),
            Item("quantity", PyNum(parse_float(T(lines[i], "Quantita")))),
            Item("unit_price", PyNum(parse_float(T(lines[i], "PrezzoUnitario")))),
            Item("total_price", PyNum(parse_float(T(lines[i], "PrezzoTotale")))),
            Item("vat_rate", PyNum(parse_float(T(lines[i], "AliquotaIVA")))),
            Item("vat_nature", PyStr(T(lines[i], "Natura")))>>)))])

extract_pagamento(root, nsp) ==
    LET pagamento == find(root, <<Desc(ns(nsp, "DatiPagamento"))>>)
    IN  IF pagamento = <<>> THEN PyDict(<<>>)
        ELSE clean_data(PyDict(<<
                Item("method", PyStr(get_text(pagamento[1],
                        <<Child(ns(nsp, "ModalitaPagamento"))>>))),
                Item("terms", PyStr(get_text(pagamento[1],
                        <<Child(ns(nsp, "TerminiPagamento"))>>))),
                Item("iban", PyStr(get_text(pagamento[1],
                        <<Child(ns(nsp, "DettaglioPagamento")),
                          Child(ns(nsp, "IBAN"))>>)))>>))

extract_riepilogo_iva(root, nsp) ==
    LET rieps == findall(root, <<Desc(ns(nsp, "DatiRiepilogo"))>>)
        T(riep, a) == get_text(riep, <<Child(ns(nsp, a))>>)
    IN  PyList([i \in 1..Len(rieps) |-> Item("", PyDict(<<
            Item("rate", PyNum(parse_float(T(rieps[i], "AliquotaIVA")))),
            Item("taxable", PyNum(parse_float(T(rieps[i], "ImponibileImporto")))),
            Item("amount", PyNum(parse_float(T(rieps[i], "Imposta"))))>>))])

\* parse_fattura on a file that ET.parse read as the element root
parse_fattura(xml_file, root) ==
    LET nsp == Namespace(root.tag)
    IN  PyDict(<<
            Item("xml_file", PyStr(<<xml_file>>)),
            Item("header", PyDict(<<
                Item("supplier", extract_anagrafica(root, nsp, "CedentePrestatore")),
                Item("customer", extract_anagrafica(root, nsp, "CessionarioCommittente"))>>)),
            Item("document_data", extract_dati_generali(root, nsp)),
            Item("line_items", extract_line_items(root, nsp)),
            Item("payment_details", extract_pagamento(root, nsp)),
            Item("tax_summary", extract_riepilogo_iva(root, nsp))>>)

(***************************************************************************)
(* Invoice documents.  A logical invoice says which sections and fields a  *)
(* document has (an optional part is a sequence of length 0 or 1);         *)
(* RenderInvoice writes it as elements, all of them in the namespace uri,  *)
(* or in none when uri = "".                                               *)
(***************************************************************************)
NsUri == "http://ivaservizi.agenziaentrate.gov.it/docs/xsd/fatture/v1.2"

Tag(uri, local) == IF uri = "" THEN <<local>> ELSE <<"{", uri, "}", local>>
Node(uri, local, kids) == El(Tag(uri, local), <<>>, kids)
Opt(uri, local, opt) == [i \in 1..Len(opt) |-> El(Tag(uri, local), opt[i], <<>>)]

RenderParty(uri, section, party) ==
    [i \in 1..Len(party) |->
        Node(uri, section,
             <<Node(uri, "IdFiscaleIVA", Opt(uri, "IdCodice", party[i].vat)),
               Node(uri, "Anagrafica",
                    Opt(uri, "Denominazione", party[i].denominazione)
                    \o Opt(uri, "Nome", party[i].nome)
                    \o Opt(uri, "Cognome", party[i].cognome)),
               Node(uri, "Sede", Opt(uri, "Comune", party[i].comune))>>)]

RenderInvoice(uri, inv) ==
    Node(uri, "FatturaElettronica",
      <<Node(uri, "FatturaElettronicaHeader",
             RenderParty(uri, "CedentePrestatore", inv.supplier)
             \o RenderParty(uri, "CessionarioCommittente", inv.customer)),
        Node(uri, "FatturaElettronicaBody",
             <<Node(uri, "DatiGenerali",
                    [i \in 1..Len(inv.docdata) |->
                        Node(uri, "DatiGeneraliDocumento",
                             <<El(Tag(uri, "TipoDocumento"), <<"TD01">>, <<>>)>>
                             \o Opt(uri, "Divisa", inv.docdata[i].divisa)
                             \o <<El(Tag(uri, "Data"), inv.docdata[i].data, <<>>),
                                  El(Tag(uri, "Numero"), <<"7">>, <<>>)>>
                             \o Opt(uri, "ImportoTotaleDocumento", inv.docdata[i].totale))]),
               Node(uri, "DatiBeniServizi",
                    [i \in 1..Len(inv.lines) |->
                        Node(uri, "DettaglioLinee",
                             <<El(Tag(uri, "NumeroLinea"), inv.lines[i].numero, <<>>),
                               El(Tag(uri, "Descrizione"), <<"item">>, <<>>),
                               El(Tag(uri, "PrezzoTotale"), inv.lines[i].totale, <<>>)>>
                             \o Opt(uri, "AliquotaIVA", inv.lines[i].aliquota))]
                    \o [i \in 1..Len(inv.tax) |->
                        Node(uri, "DatiRiepilogo",
                             <<El(Tag(uri, "AliquotaIVA"), inv.tax[i].aliquota, <<>>),
                               El(Tag(uri, "ImponibileImporto"), inv.tax[i].imponibile, <<>>),
                               El(Tag(uri, "Imposta"), inv.tax[i].imposta, <<>>)>>)])>>
             \o [i \in 1..Len(inv.payment) |->
                    Node(uri, "DatiPagamento",
                         <<El(Tag(uri, "ModalitaPagamento"), inv.payment[i], <<>>)>>)])>>)

(***************************************************************************)
(* fattura_elettronica_parser_advanced.py: InvoiceProcessor                *)
(*                                                                         *)
(* The path texts of this parser are [absolute, steps]: absolute when the  *)
(* text starts with "/", each step [axis, prefix, name, local_name], where *)
(* prefix is the "ns" of "ns:Tag" and local_name is the X of the predicate *)
(* [local-name()="X"] ("" for a step without one).                         *)
(***************************************************************************)
PStep(axis, prefix, name, local_name) ==
    [axis |-> axis, prefix |-> prefix, name |-> name, local_name |-> local_name]
\* 'ns:Tag'
Prefixed(tag) == [absolute |-> FALSE, steps |-> <<PStep("child", "ns", tag, "")>>]
\* '*[local-name()="A"]'
ByLocalName(a) == [absolute |-> FALSE, steps |-> <<PStep("child", "", "*", a)>>]
\* './/*[local-name()="A"]/*[local-name()="B"]'
Under(a, b) ==
    [absolute |-> FALSE,
     steps |-> <<PStep("desc", "", "*", a), PStep("child", "", "*", b)>>]
\* './/*[local-name()="A"]'
Anywhere(a) == [absolute |-> FALSE, steps |-> <<PStep("desc", "", "*", a)>>]
\* '//*[local-name()="A"]/*[local-name()="B"]'
Absolute(a, b) ==
    [absolute |-> TRUE,
     steps |-> <<PStep("desc", "", "*", a), PStep("child", "", "*", b)>>]
\* '//*[local-name()="A"]/*[local-name()="B"]/*[local-name()="C"]'
Absolute3(a, b, c) ==
    [absolute |-> TRUE,
     steps |-> <<PStep("desc", "", "*", a), PStep("child", "", "*", b),
                 PStep("child", "", "*", c)>>]

\* what a call gives: a value, or an exception that leaves it
Returned(v) == [raised |-> "", value |-> v]
Raised(exception) == [raised |-> exception, value |-> PyNone]
\* the call r and then, unless it raised, F of what it returned
Then(r, F(_)) == IF r.raised # "" THEN Raised(r.raised) ELSE F(r.value)
\* F of the value v
Let(v, F(_)) == F(v)

\* parse_xml: ns_map
ns_map == [ns |-> NsUri]

\* Element.findall(path, namespaces).  With no namespaces and a path text
\* that holds none of / * [ @ . the tag of each child is compared with the
\* whole text; otherwise ElementPath compiles the path, and raises
\* SyntaxError for an absolute path ("cannot use absolute path on element")
\* and for a predicate it does not know ("invalid predicate"), whatever the
\* document holds.
ElementFindAll(e, path, with_ns_map) ==
    IF /\ ~with_ns_map
       /\ ~path.absolute
       /\ Len(path.steps) = 1
       /\ path.steps[1].axis = "child"
       /\ path.steps[1].name # "*"
       /\ path.steps[1].local_name = ""
    THEN Returned(SelectSeq(e.kids, LAMBDA k :
            k.tag = (IF path.steps[1].prefix = "" THEN <<path.steps[1].name>>
                     ELSE <<path.steps[1].prefix, ":", path.steps[1].name>>)))
    ELSE IF path.absolute THEN Raised("SyntaxError")
    ELSE IF \E i \in 1..Len(path.steps) : path.steps[i].local_name # ""
    THEN Raised("SyntaxError")
    ELSE IF \E i \in 1..Len(path.steps) :
               path.steps[i].prefix # "" /\ ~with_ns_map
    THEN Raised("SyntaxError")
    ELSE Returned(FindAll(<<e>>,
            [i \in 1..Len(path.steps) |->
                [axis |-> path.steps[i].axis,
                 tag |-> IF path.steps[i].prefix = "" THEN <<path.steps[i].name>>
                         ELSE Tag(ns_map.ns, path.steps[i].name)]]))

\* InvoiceProcessor.xpath_text: only IndexError and AttributeError are caught
xpath_text(element, xpath) ==
    Then(ElementFindAll(element, xpath, FALSE), LAMBDA found :
        Returned(IF found = <<>> THEN <<>> ELSE Strip(found[1].text)))

\* InvoiceProcessor.extract_party_data
extract_party_data(root, section) ==
    Then(ElementFindAll(root, Prefixed(section), FALSE), LAMBDA party :
    IF party = <<>> THEN Returned(PyDict(<<>>))
    ELSE
    Then(xpath_text(party[1], Under("Anagrafica", "Denominazione")), LAMBDA name :
    Then(xpath_text(party[1], Under("IdFiscaleIVA", "IdCodice")), LAMBDA vat :
    Then(xpath_text(party[1], Under("Sede", "Indirizzo")), LAMBDA street :
    Then(xpath_text(party[1], Under("Sede", "CAP")), LAMBDA zip :
    Then(xpath_text(party[1], Under("Sede", "Comune")), LAMBDA city :
    Then(xpath_text(party[1], Under("Sede", "Nazione")), LAMBDA country :
        Returned(PyDict(<<
            Item("name", PyStr(name)),
            Item("vat", PyStr(vat)),
            Item("address", PyDict(<<
                Item("street", PyStr(street)),
                Item("zip", PyStr(zip)),
                Item("city", PyStr(city)),
                Item("country", PyStr(country))>>))>>)))))))))

\* InvoiceProcessor.parse_header
parse_header(root) ==
    Then(ElementFindAll(root, Prefixed("FatturaElettronicaHeader"), TRUE),
         LAMBDA qualified :
    Then(IF qualified = <<>>
         THEN ElementFindAll(root, ByLocalName("FatturaElettronicaHeader"), FALSE)
         ELSE Returned(qualified), LAMBDA header :
    IF header = <<>>
    THEN Returned(PyDict(<<Item("supplier", PyDict(<<>>)),
                           Item("customer", PyDict(<<>>))>>))
    ELSE
    Then(extract_party_data(header[1], "CedentePrestatore"), LAMBDA supplier :
    Then(extract_party_data(header[1], "CessionarioCommittente"), LAMBDA customer :
        Returned(PyDict(<<Item("supplier", supplier),
                          Item("customer", customer)>>))))))

\* InvoiceProcessor.parse_document
parse_document(root) ==
    Then(xpath_text(root, Absolute("DatiGeneraliDocumento", "TipoDocumento")),
         LAMBDA type :
    Then(xpath_text(root, Absolute("DatiGeneraliDocumento", "Numero")),
         LAMBDA number :
    Then(xpath_text(root, Absolute("DatiGeneraliDocumento", "Data")),
         LAMBDA date :
    Then(xpath_text(root, Absolute("DatiGeneraliDocumento", "Divisa")),
         LAMBDA currency :
    Then(xpath_text(root, Absolute("DatiGeneraliDocumento", "ImportoTotaleDocumento")),
         LAMBDA total :
        Returned(PyDict(<<
            Item("type", PyStr(type)),
            Item("number", PyStr(number)),
            Item("date", parse_date(date)),
            Item("currency", PyStr(currency)),
            Item("total", PyNum(parse_float(total)))>>)))))))

\* InvoiceProcessor.parse_line
parse_line(line) ==
    Then(xpath_text(line, Anywhere("NumeroLinea")), LAMBDA line_number :
    Then(xpath_text(line, Anywhere("Descrizione")), LAMBDA description :
    Then(xpath_text(line, Anywhere("Quantita")), LAMBDA quantity :
    Then(xpath_text(line, Anywhere("PrezzoUnitario")), LAMBDA price :
    Then(xpath_text(line, Anywhere("PrezzoTotale")), LAMBDA total :
    Then(xpath_text(line, Anywhere("AliquotaIVA")), LAMBDA vat_rate :
        Returned(PyDict(<<
            Item("line_number", PyNum(parse_int(line_number))),
            Item("description", PyStr(description)),
            Item("quantity", PyNum(parse_float(quantity))),
            Item("price", PyNum(parse_float(price))),
            Item("total", PyNum(parse_float(total))),
            Item("vat_rate", PyNum(parse_float(vat_rate)))>>))))))))

\* [parse_line(line) for line in lines]
RECURSIVE ParseLines(_)
ParseLines(lines) ==
    IF lines = <<>> THEN Returned(<<>>)
    ELSE Then(parse_line(Head(lines)), LAMBDA item :
         Then(ParseLines(Tail(lines)), LAMBDA items :
             Returned(<<Item("", item)>> \o items)))

\* InvoiceProcessor.parse_line_items
parse_line_items(root) ==
    Then(ElementFindAll(root,
            Absolute3("FatturaElettronicaBody", "DatiBeniServizi", "DettaglioLinee"),
            FALSE), LAMBDA lines :
    Then(ParseLines(lines), LAMBDA items : Returned(PyList(items))))

\* InvoiceProcessor.parse_payment and parse_tax
parse_payment(root) == Returned(PyDict(<<>>))
parse_tax(root) == Returned(PyDict(<<>>))

\* InvoiceProcessor.parse_xml
parse_xml(root) ==
    Then(parse_header(root), LAMBDA header :
    Then(parse_document(root), LAMBDA document :
    Then(parse_line_items(root), LAMBDA line_items :
    Then(parse_payment(root), LAMBDA payment :
    Then(parse_tax(root), LAMBDA tax :
        Returned(PyDict(<<
            Item("header", header),
            Item("document", document),
            Item("line_items", line_items),
            Item("payment", payment),
            Item("tax", tax)>>)))))))

\* dict access
HasKey(d, k) == \E i \in 1..Len(d.kids) : d.kids[i].k = k
\* d.get(k), which is d[k] for a key that d has
Get(d, k) ==
    IF HasKey(d, k) THEN d.kids[CHOOSE i \in 1..Len(d.kids) : d.kids[i].k = k].v
    ELSE PyNone
\* d[k] = v: a key that d has keeps its place, a new key comes last
Put(d, k, v) ==
    IF HasKey(d, k)
    THEN PyDict([i \in 1..Len(d.kids) |->
                    IF d.kids[i].k = k THEN Item(k, v) ELSE d.kids[i]])
    ELSE PyDict(d.kids \o <<Item(k, v)>>)
\* the mutant: every value counts as false
NeverTruthy(v) == FALSE
\* bool(v)
Truthy(v) ==
    CASE v.t = "none" -> FALSE
      [] v.t = "str" -> v.s # <<>>
      [] v.t = "num" -> v.n.m # 0
      [] OTHER -> v.kids # <<>>

\* CONFIG['data_normalization']
ConfigCurrency == PyStr(<<"EUR">>)
ConfigDefaultVatRate == PyNum(Float(22, 0))

\* InvoiceProcessor.normalize_data
normalize_data(raw_data) ==
    LET document == Get(raw_data, "document")
        dated == Put(document, "date", normalize_date(Get(document, "date")))
        valued == IF ~Truthy(Get(dated, "currency"))
                  THEN Put(dated, "currency", ConfigCurrency)
                  ELSE dated
        with_document == IF HasKey(raw_data, "document")
                         THEN Put(raw_data, "document", valued)
                         ELSE raw_data
        line_items == Get(raw_data, "line_items")
        rated == PyList([i \in 1..Len(line_items.kids) |->
                    Item("", IF ~Truthy(Get(line_items.kids[i].v, "vat_rate"))
                             THEN Put(line_items.kids[i].v, "vat_rate",
                                      ConfigDefaultVatRate)
                             ELSE line_items.kids[i].v)])
    IN  IF HasKey(raw_data, "line_items")
        THEN Put(with_document, "line_items", rated)
        ELSE with_document

\* the sum of two floats of the model
FloatAdd(a, b) ==
    IF a.e >= b.e
    THEN Normalized(a.m + b.m * Pow10(a.e - b.e), a.e)
    ELSE Normalized(a.m * Pow10(b.e - a.e) + b.m, b.e)

RECURSIVE SumTotals(_)
SumTotals(items) ==
    IF items = <<>> THEN Zero
    ELSE FloatAdd(Get(Head(items).v, "total").n, SumTotals(Tail(items)))

\* InvoiceProcessor.calculate_metrics
calculate_metrics(invoice_data) ==
    PyDict(<<
        Item("line_items_count",
             PyNum(Float(Len(Get(invoice_data, "line_items").kids), 0))),
        Item("total_gross_amount",
             PyNum(SumTotals(Get(invoice_data, "line_items").kids))),
        Item("vat_summary_available",
             PyNum(Float(IF Truthy(Get(invoice_data, "tax")) THEN 1 ELSE 0, 0)))>>)

(***************************************************************************)
(* Files, and InvoiceProcessor.process_single on one of them               *)
(*                                                                         *)
(* A file is [exists, kind, root, bytes]: kind "empty" (zero length),      *)
(* "malformed" (not well-formed XML), or "xml" with its root element;      *)
(* bytes names the content.                                                *)
(***************************************************************************)
NoRoot == El(<<>>, <<>>, <<>>)
File(kind, root, bytes) == [exists |-> TRUE, kind |-> kind, root |-> root, bytes |-> bytes]
Missing == [exists |-> FALSE, kind |-> "empty", root |-> NoRoot, bytes |-> ""]

ErrorKinds == {"file_not_found", "empty_file", "xml_parsing", "data_processing",
               "unexpected_error"}

\* What handle_error and process_single give: the error_stats of the
\* processor they ran on, and the result they return.
Outcome(stats, result) == [stats |-> stats, result |-> result]

\* InvoiceProcessor.handle_error
handle_error(stats, xml_path, error_type, error_details) ==
    Outcome([stats EXCEPT ![error_type] = @ + 1],
            [status |-> "error", file |-> xml_path, error_type |-> error_type,
             error_details |-> error_details, data |-> PyNone, metrics |-> PyNone])

\* process_single once safe_parse has read the file: parse_xml, then
\* normalize_data and calculate_metrics
ExtractAndNormalize(stats, xml_path, root) ==
    Let(parse_xml(root), LAMBDA invoice_data :
        IF invoice_data.raised # ""
        THEN handle_error(stats, xml_path, "data_processing",
                          <<"Errore elaborazione dati: ", invoice_data.raised>>)
        ELSE Let(normalize_data(invoice_data.value), LAMBDA normalized_data :
                Outcome(stats,
                        [status |-> "success", file |-> <<>>, error_type |-> "",
                         error_details |-> <<>>, data |-> normalized_data,
                         metrics |-> calculate_metrics(normalized_data)])))

\* the mutant: the length of the file is not looked at
process_single_no_size_check(stats, xml_path, file, getsize_raises) ==
    IF ~file.exists
    THEN handle_error(stats, xml_path, "file_not_found", <<"File non trovato">>)
    ELSE IF getsize_raises
    THEN handle_error(stats, xml_path, "unexpected_error",
                      <<"Errore imprevisto: ", "OSError">>)
    ELSE IF file.kind # "xml"
    THEN handle_error(stats, xml_path, "xml_parsing",
                      <<"Errore parsing XML: ", "ParseError">>)
    ELSE ExtractAndNormalize(stats, xml_path, file.root)

\* InvoiceProcessor.process_single.  getsize_raises: os.path.getsize fails
\* on the file that os.path.exists has just seen (it is gone, or cannot be
\* read any more).
process_single(stats, xml_path, file, getsize_raises) ==
    IF ~file.exists
    THEN handle_error(stats, xml_path, "file_not_found", <<"File non trovato">>)
    ELSE IF getsize_raises
    THEN handle_error(stats, xml_path, "unexpected_error",
                      <<"Errore imprevisto: ", "OSError">>)
    ELSE IF file.kind = "empty"
    THEN handle_error(stats, xml_path, "empty_file", <<"File vuoto">>)
    ELSE IF file.kind = "malformed"
    THEN handle_error(stats, xml_path, "xml_parsing",
                      <<"Errore parsing XML: ", "ParseError">>)
    ELSE ExtractAndNormalize(stats, xml_path, file.root)

(***************************************************************************)
(* The invoices of the model                                               *)
(***************************************************************************)
MaxLines == 2
MaxTax == 1

SeqsUpTo(S, n) == UNION {[1..k -> S] : k \in 0..n}

Party(denominazione, nome, cognome, vat, comune) ==
    [denominazione |-> denominazione, nome |-> nome, cognome |-> cognome,
     vat |-> vat, comune |-> comune]
DocData(d, divisa, totale) == [data |-> d, divisa |-> divisa, totale |-> totale]
Line(numero, totale, aliquota) ==
    [numero |-> numero, totale |-> totale, aliquota |-> aliquota]
TaxLine(aliquota, imponibile, imposta) ==
    [aliquota |-> aliquota, imponibile |-> imponibile, imposta |-> imposta]
Invoice(supplier, customer, docdata, lines, payment, tax) ==
    [supplier |-> supplier, customer |-> customer, docdata |-> docdata,
     lines |-> lines, payment |-> payment, tax |-> tax]

DefaultParty ==
    <<Party(<<<<"Beta Spa">>>>, <<>>, <<>>, <<<<"IT02">>>>, <<<<"Roma">>>>)>>
DefaultDocData ==
    <<DocData(<<"2", "0", "2", "4", "-", "0", "3", "-", "1", "5">>,
              <<<<"EUR">>>>, <<<<"2", "1", ",", "0", "0">>>>)>>
\* the invoices: a supplier with or without each of its names, and the
\* optional sections of the body present or not
Invoices ==
    LET Suppliers ==
            {<<>>} \cup
            {<<Party(d, n, c, <<<<"IT01">>>>, <<>>)>> :
                d \in {<<>>, <<<<"Acme Srl">>>>},
                n \in {<<>>, <<<<"Mario">>>>},
                c \in {<<>>, <<<<"Rossi">>>>}}
        DocDatas ==
            {<<>>, DefaultDocData,
             <<DocData(<<"1", "5", "/", "0", "3", "/", "2", "0", "2", "4">>,
                       <<>>, <<<<"0", ".", "0", "0">>>>)>>}
        LineKinds ==
            {Line(<<"1">>, <<"2", "1", ",", "0", "0">>, <<<<"2", "2", ".", "0", "0">>>>),
             Line(<<"2">>, <<"0", ".", "0", "0">>, <<>>),
             Line(<<"1">>, <<"1", "0", ".", "5", "0">>, <<<<"0", ".", "0", "0">>>>),
             Line(<<"5">>, <<"3", ".", "0", "0">>, <<>>),
             Line(<<"0">>, <<"4", ".", "0", "0">>, <<>>)}
        TaxKinds ==
            {TaxLine(<<"2", "2", ".", "0", "0">>, <<"1", "0", "0", ".", "0", "0">>,
                     <<"2", "2", ".", "0", "0">>),
             TaxLine(<<"0", ".", "0", "0">>, <<"5", "0", ".", "0", "0">>,
                     <<"0", ".", "0", "0">>)}
        Payments == {<<>>, <<<<"MP05">>>>}
    IN  {Invoice(s, <<>>, DefaultDocData, <<>>, p, <<>>) :
            s \in Suppliers, p \in Payments}
        \cup {Invoice(DefaultParty, DefaultParty, d, l, p, t) :
                d \in DocDatas, l \in SeqsUpTo(LineKinds, MaxLines),
                p \in Payments, t \in SeqsUpTo(TaxKinds, MaxTax)}

NoResult ==
    [status |-> "", file |-> <<>>, error_type |-> "", error_details |-> <<>>,
     data |-> PyNone, metrics |-> PyNone]
NoStats == [k \in ErrorKinds |-> 0]
XmlFile == "fattura.xml"

FatturaIdle ==
    /\ invoice = Invoice(<<>>, <<>>, <<>>, <<>>, <<>>, <<>>)
    /\ fattura_plain = Unset
    /\ fattura_ns = Unset
    /\ advanced = NoResult

InitFattura ==
    /\ invoice \in Invoices
    /\ fattura_plain = Unset
    /\ fattura_ns = Unset
    /\ advanced = NoResult

\* parse_fattura on the document written without a namespace
ParsePlain ==
    /\ fattura_plain = Unset
    /\ fattura_plain' = parse_fattura(XmlFile, RenderInvoice("", invoice))
    /\ UNCHANGED <<invoice, fattura_ns, advanced>>

\* parse_fattura on the same document with every element in the namespace
ParseNamespaced ==
    /\ fattura_ns = Unset
    /\ fattura_ns' = parse_fattura(XmlFile, RenderInvoice(NsUri, invoice))
    /\ UNCHANGED <<invoice, fattura_plain, advanced>>

\* process_single on the document, written either way
ProcessSingleDocument ==
    /\ advanced = NoResult
    /\ \E uri \in {"", NsUri} :
          advanced' = process_single(NoStats, <<XmlFile>>,
                                     File("xml", RenderInvoice(uri, invoice), "doc"),
                                     FALSE).result
    /\ UNCHANGED <<invoice, fattura_plain, fattura_ns>>

(***************************************************************************)
(* The file system that process_files runs on.  A path is a sequence of    *)
(* atoms whose last atom is the extension of the file name.                *)
(***************************************************************************)
MaxInputs == 2
NumWorkers == 2

SampleInvoice ==
    Invoice(DefaultParty, DefaultParty, DefaultDocData,
            <<Line(<<"1">>, <<"2", "1", ",", "0", "0">>, <<<<"2", "2", ".", "0", "0">>>>)>>,
            <<>>, <<>>)
QualifiedDocument(bytes) == File("xml", RenderInvoice(NsUri, SampleInvoice), bytes)
PlainDocument(bytes) == File("xml", RenderInvoice("", SampleInvoice), bytes)
EmptyFile(bytes) == File("empty", NoRoot, bytes)
MalformedFile(bytes) == File("malformed", NoRoot, bytes)

\* a member of an archive, or an entry of a directory
Member(filename, file) == [filename |-> filename, file |-> file]

ZipObject(members) == [type |-> "zip", members |-> members, file |-> Missing]
DirObject(entries) == [type |-> "dir", members |-> entries, file |-> Missing]
FileObject(file) == [type |-> "file", members |-> <<>>, file |-> file]

InputPaths ==
    {<<"missing", ".xml">>, <<"empty", ".xml">>, <<"bad", ".xml">>,
     <<"invoice", ".XML">>, <<"gone", ".xml">>, <<"notes", ".txt">>,
     <<"A", ".zip">>, <<"B", ".zip">>, <<"C", ".zip">>, <<"inbox">>}

\* what a path of InputPaths names
ObjectAt(path) ==
    CASE path = <<"missing", ".xml">> -> FileObject(Missing)
      [] path = <<"empty", ".xml">> -> FileObject(EmptyFile("empty.xml"))
      [] path = <<"bad", ".xml">> -> FileObject(MalformedFile("bad.xml"))
      [] path = <<"invoice", ".XML">> -> FileObject(QualifiedDocument("invoice.XML"))
      [] path = <<"gone", ".xml">> -> FileObject(PlainDocument("gone.xml"))
      [] path = <<"notes", ".txt">> -> FileObject(MalformedFile("notes.txt"))
      [] path = <<"inbox", "/", "x", ".xml">> -> FileObject(PlainDocument("inbox/x.xml"))
      [] path = <<"A", ".zip">> ->
            ZipObject(<<Member(<<"a", ".xml">>, PlainDocument("A.zip:1")),
                        Member(<<"readme", ".txt">>, MalformedFile("A.zip:2")),
                        Member(<<"B", ".XML">>, MalformedFile("A.zip:3"))>>)
      [] path = <<"B", ".zip">> ->
            ZipObject(<<Member(<<"a", ".xml">>, EmptyFile("B.zip:1")),
                        Member(<<"a", ".xml">>, QualifiedDocument("B.zip:2"))>>)
      [] path = <<"C", ".zip">> ->
            ZipObject(<<Member(<<"sub", "/", "c", ".xml">>, QualifiedDocument("C.zip:1")),
                        Member(<<"d", ".xml">>, PlainDocument("C.zip:2"))>>)
      [] path = <<"inbox">> ->
            DirObject(<<Member(<<"x", ".xml">>, PlainDocument("inbox/x.xml")),
                        Member(<<"y", ".txt">>, MalformedFile("inbox/y.txt"))>>)
      [] OTHER -> FileObject(Missing)

\* os.path.getsize fails on this path, which os.path.exists has just seen
GetsizeRaises(path) == path = <<"gone", ".xml">>

TempDir == <<"/tmp", "/">>
\* os.path.join(tempfile.gettempdir(), filename)
TempPath(filename) == TempDir \o filename
IsTempPath(path) == Len(path) > 2 /\ SubSeq(path, 1, 2) = TempDir
TempPaths ==
    {TempPath(<<"a", ".xml">>), TempPath(<<"B", ".XML">>),
     TempPath(<<"sub", "/", "c", ".xml">>), TempPath(<<"d", ".xml">>)}
\* the directory part of a member's file name ("" when it has none)
DirPart(filename) == IF Len(filename) > 2 THEN filename[1] ELSE ""

\* str.lower()
LowerAtom(a) ==
    CASE a = ".XML" -> ".xml"
      [] a = "B" -> "b"
      [] a = "A" -> "a"
      [] a = "C" -> "c"
      [] OTHER -> a
Lower(s) == [i \in 1..Len(s) |-> LowerAtom(s[i])]
\* str.endswith(suffix), the suffix being an extension
EndsWith(s, suffix) == s # <<>> /\ s[Len(s)] = suffix

\* the file at a path, as process_single finds it
FileAt(tmp, path) == IF IsTempPath(path) THEN tmp[path] ELSE ObjectAt(path).file

(***************************************************************************)
(* InvoiceProcessor.extract_zip and get_xml_from_dir                       *)
(***************************************************************************)
\* extract_zip over the members still to read: the candidates it appends and
\* the files of the temporary directory when it returns.  open(temp_path,
\* 'wb') raises when the directory part of the member's name is no
\* directory there; the except clause then ends the loop.
RECURSIVE extract_zip(_, _, _)
extract_zip(members, dirs, tmp) ==
    IF members = <<>> THEN [xml_files |-> <<>>, tmp |-> tmp]
    ELSE IF ~EndsWith(Lower(Head(members).filename), ".xml")
    THEN extract_zip(Tail(members), dirs, tmp)
    ELSE LET temp_path == TempPath(Head(members).filename)
         IN  IF DirPart(Head(members).filename) \notin dirs \cup {""}
             THEN [xml_files |-> <<>>, tmp |-> tmp]
             ELSE LET rest == extract_zip(Tail(members), dirs,
                                [tmp EXCEPT ![temp_path] = Head(members).file])
                  IN  [xml_files |-> <<temp_path>> \o rest.xml_files, tmp |-> rest.tmp]

get_xml_from_dir(dir_path, entries) ==
    LET xml == SelectSeq(entries, LAMBDA m : EndsWith(Lower(m.filename), ".xml"))
    IN  [i \in 1..Len(xml) |-> dir_path \o <<"/">> \o xml[i].filename]

(***************************************************************************)
(* InvoiceProcessor.process_files                                          *)
(***************************************************************************)
Idle == [chunk |-> <<>>, stats |-> NoStats]

\* Pool.map: the tasks 1..n in chunks of ceil(n / (4 * processes))
ChunkSize(n) == (n + 4 * NumWorkers - 1) \div (4 * NumWorkers)
Chunks(n) ==
    [c \in 1..((n + ChunkSize(n) - 1) \div ChunkSize(n)) |->
        [k \in 1..(IF c * ChunkSize(n) <= n THEN ChunkSize(n)
                   ELSE n - (c - 1) * ChunkSize(n)) |->
            (c - 1) * ChunkSize(n) + k]]

BatchIdle ==
    /\ pc = "idle"
    /\ files = <<>>
    /\ next_file = 0
    /\ tmp_dirs = {}
    /\ tmp_files = [p \in TempPaths |-> Missing]
    /\ xml_files = <<>>
    /\ queue = <<>>
    /\ workers = [w \in 1..NumWorkers |-> Idle]
    /\ results = <<>>
    /\ error_stats = NoStats
    /\ output_file = <<>>
    /\ error_file = <<>>
    /\ returned = <<>>

InitBatch ==
    /\ pc = "discover"
    /\ files \in SeqsUpTo(InputPaths, MaxInputs)
    /\ next_file = 1
    /\ tmp_dirs \in SUBSET {"sub"}
    /\ tmp_files = [p \in TempPaths |-> Missing]
    /\ xml_files = <<>>
    /\ queue = <<>>
    /\ workers = [w \in 1..NumWorkers |-> Idle]
    /\ results = <<>>
    /\ error_stats = NoStats
    /\ output_file = <<>>
    /\ error_file = <<>>
    /\ returned = <<>>

\* process_files, one turn of "for file_path in files"
Discover ==
    /\ pc = "discover"
    /\ next_file <= Len(files)
    /\ LET file_path == files[next_file]
           object == ObjectAt(file_path)
           extracted == extract_zip(object.members, tmp_dirs, tmp_files)
       IN  /\ xml_files' =
                 xml_files \o
                 (IF object.type = "zip" THEN extracted.xml_files
                  ELSE IF object.type = "dir"
                  THEN get_xml_from_dir(file_path, object.members)
                  ELSE IF EndsWith(Lower(file_path), ".xml") THEN <<file_path>>
                  ELSE <<>>)
           /\ tmp_files' = IF object.type = "zip" THEN extracted.tmp ELSE tmp_files
    /\ next_file' = next_file + 1
    /\ UNCHANGED <<pc, files, tmp_dirs, queue, workers, results, error_stats,
                   output_file, error_file, returned>>

\* process_files: "if not xml_files: return 0, len(files)"
NoXmlFiles ==
    /\ pc = "discover"
    /\ next_file > Len(files)
    /\ xml_files = <<>>
    /\ returned' = <<0, Len(files)>>
    /\ pc' = "done"
    /\ UNCHANGED <<files, next_file, tmp_dirs, tmp_files, xml_files, queue,
                   workers, results, error_stats, output_file, error_file>>

\* process_files: pool.map(self.process_single, xml_files) hands out the tasks
Dispatch ==
    /\ pc = "discover"
    /\ next_file > Len(files)
    /\ xml_files # <<>>
    /\ queue' = Chunks(Len(xml_files))
    /\ results' = [i \in 1..Len(xml_files) |-> NoResult]
    /\ pc' = "map"
    /\ UNCHANGED <<files, next_file, tmp_dirs, tmp_files, xml_files, workers,
                   error_stats, output_file, error_file, returned>>

\* a worker process takes the next chunk; with it comes a pickled copy of
\* the processor, and so of its error_stats
TakeChunk(w) ==
    /\ pc = "map"
    /\ workers[w].chunk = <<>>
    /\ queue # <<>>
    /\ workers' = [workers EXCEPT ![w] = [chunk |-> Head(queue), stats |-> error_stats]]
    /\ queue' = Tail(queue)
    /\ UNCHANGED <<pc, files, next_file, tmp_dirs, tmp_files, xml_files, results,
                   error_stats, output_file, error_file, returned>>

\* a worker process runs process_single, on its copy of the processor, for
\* the next task of its chunk
RunTask(w) ==
    /\ pc = "map"
    /\ workers[w].chunk # <<>>
    /\ LET i == Head(workers[w].chunk)
           done == process_single(workers[w].stats, xml_files[i],
                                  FileAt(tmp_files, xml_files[i]),
                                  GetsizeRaises(xml_files[i]))
       IN  /\ results' = [results EXCEPT ![i] = done.result]
           /\ workers' = [workers EXCEPT ![w] =
                             [chunk |-> Tail(workers[w].chunk), stats |-> done.stats]]
    /\ UNCHANGED <<pc, files, next_file, tmp_dirs, tmp_files, xml_files, queue,
                   error_stats, output_file, error_file, returned>>

\* InvoiceProcessor.generate_output: the data file (and the metrics file)
generate_output(invoices, output_format) ==
    IF invoices = <<>> THEN <<>>
    ELSE <<[name |-> <<"output", IF output_format = "json" THEN ".json" ELSE ".csv">>,
            rows |-> [i \in 1..Len(invoices) |-> invoices[i].data]],
           [name |-> <<"output", "_metrics", ".csv">>,
            rows |-> [i \in 1..Len(invoices) |-> invoices[i].metrics]]>>

\* InvoiceProcessor.generate_error_report
generate_error_report(failed_invoices) ==
    IF failed_invoices = <<>> THEN <<>>
    ELSE <<[name |-> <<"output", "_errors", ".json">>, rows |-> failed_invoices]>>

\* process_files, once pool.map has every result
Finish ==
    /\ pc = "map"
    /\ \A i \in 1..Len(results) : results[i] # NoResult
    /\ LET valid_invoices == SelectSeq(results, LAMBDA r : r.status = "success")
           failed_invoices == SelectSeq(results, LAMBDA r : r.status = "error")
       IN  /\ \E output_format \in {"json", "csv"} :
                 output_file' = generate_output(valid_invoices, output_format)
           /\ error_file' = generate_error_report(failed_invoices)
           /\ returned' = <<Len(valid_invoices), Len(failed_invoices)>>
    /\ pc' = "done"
    /\ UNCHANGED <<files, next_file, tmp_dirs, tmp_files, xml_files, queue,
                   workers, results, error_stats>>

(***************************************************************************)
(* InvoiceProcessor.normalize_data on one dict                              *)
(***************************************************************************)
\* The dicts normalize_data is tried on: with or without a document, whose
\* currency is missing, empty or given; with or without line items, whose
\* vat_rate is missing, zero or given.
RawRecords ==
    LET Documents ==
            {<<>>} \cup
            {<<Item("document", PyDict(<<Item("number", PyStr(<<"7">>)),
                                        Item("date", d)>> \o c))>> :
                d \in {PyNone, PyStr(<<"2", "0", "2", "4", "-", "0", "3", "-", "1", "5">>)},
                c \in {<<>>, <<Item("currency", PyStr(<<>>))>>,
                       <<Item("currency", PyStr(<<"EUR">>))>>,
                       <<Item("currency", PyStr(<<"USD">>))>>}}
        Items ==
            {PyDict(<<Item("line_number", PyNum(Float(1, 0)))>> \o r
                    \o <<Item("total", PyNum(Float(21, 0)))>>) :
                r \in {<<>>, <<Item("vat_rate", PyNum(Zero))>>,
                       <<Item("vat_rate", PyNum(Float(22, 0)))>>,
                       <<Item("vat_rate", PyNum(Float(10, 0)))>>}}
        LineItems ==
            {<<>>} \cup
            {<<Item("line_items", PyList([i \in 1..Len(l) |-> Item("", l[i])]))>> :
                l \in UNION {[1..k -> Items] : k \in 0..MaxLines}}
    IN  {PyDict(<<Item("header", PyDict(<<>>))>> \o d \o l
                \o <<Item("tax", PyDict(<<>>))>>) :
            d \in Documents, l \in LineItems}

NormIdle == raw_record = Unset /\ normalized = Unset

InitNormalize ==
    /\ raw_record \in RawRecords
    /\ normalized = Unset

\* normalize_data on the dict
NormalizeData ==
    /\ normalized = Unset
    /\ normalized' = normalize_data(raw_record)
    /\ UNCHANGED raw_record

(***************************************************************************)
(* Specifications                                                          *)
(***************************************************************************)
\* one run of process_files
Init == InitBatch /\ DateIdle /\ CleanIdle /\ FatturaIdle /\ NumberIdle /\ NormIdle
Next ==
    \/ Discover /\ UNCHANGED <<dateVars, cleanVars, fatturaVars, numberVars, normVars>>
    \/ NoXmlFiles /\ UNCHANGED <<dateVars, cleanVars, fatturaVars, numberVars, normVars>>
    \/ Dispatch /\ UNCHANGED <<dateVars, cleanVars, fatturaVars, numberVars, normVars>>
    \/ \E w \in 1..NumWorkers : TakeChunk(w) /\ UNCHANGED <<dateVars, cleanVars, fatturaVars, numberVars, normVars>>
    \/ \E w \in 1..NumWorkers : RunTask(w) /\ UNCHANGED <<dateVars, cleanVars, fatturaVars, numberVars, normVars>>
    \/ Finish /\ UNCHANGED <<dateVars, cleanVars, fatturaVars, numberVars, normVars>>
Spec == Init /\ [][Next]_vars

\* the date coercers on one text
InitD == InitDate /\ CleanIdle /\ FatturaIdle /\ BatchIdle /\ NumberIdle /\ NormIdle
NextD ==
    \/ FormatDate /\ UNCHANGED <<cleanVars, fatturaVars, batchVars, numberVars, normVars>>
    \/ ParseAndNormalizeDate /\ UNCHANGED <<cleanVars, fatturaVars, batchVars, numberVars, normVars>>
SpecDate == InitD /\ [][NextD]_vars

\* clean_data on one value
InitC == InitClean /\ DateIdle /\ FatturaIdle /\ BatchIdle /\ NumberIdle /\ NormIdle
NextC ==
    \/ CleanOnce /\ UNCHANGED <<dateVars, fatturaVars, batchVars, numberVars, normVars>>
    \/ CleanTwice /\ UNCHANGED <<dateVars, fatturaVars, batchVars, numberVars, normVars>>
SpecClean == InitC /\ [][NextC]_vars

\* both parsers on one invoice document
InitF == InitFattura /\ DateIdle /\ CleanIdle /\ BatchIdle /\ NumberIdle /\ NormIdle
NextF ==
    \/ ParsePlain /\ UNCHANGED <<dateVars, cleanVars, batchVars, numberVars, normVars>>
    \/ ParseNamespaced /\ UNCHANGED <<dateVars, cleanVars, batchVars, numberVars, normVars>>
    \/ ProcessSingleDocument /\ UNCHANGED <<dateVars, cleanVars, batchVars, numberVars, normVars>>
SpecFattura == InitF /\ [][NextF]_vars

\* parse_float on one text
InitN == InitNumber /\ DateIdle /\ CleanIdle /\ FatturaIdle /\ BatchIdle /\ NormIdle
NextN ==
    \/ ParseFloatBasic /\ UNCHANGED <<dateVars, cleanVars, fatturaVars, batchVars, normVars>>
    \/ ParseFloatAdvanced /\ UNCHANGED <<dateVars, cleanVars, fatturaVars, batchVars, normVars>>
SpecNumber == InitN /\ [][NextN]_vars

\* normalize_data on one dict
InitM == InitNormalize /\ DateIdle /\ CleanIdle /\ FatturaIdle /\ BatchIdle /\ NumberIdle
NextM ==
    \/ NormalizeData /\ UNCHANGED <<dateVars, cleanVars, fatturaVars, batchVars, numberVars>>
SpecNormalize == InitM /\ [][NextM]_vars

(***************************************************************************)
(* Properties                                                              *)
(***************************************************************************)
\* the file that the task i of the pool reads
TaskFile(i) == FileAt(tmp_files, xml_files[i])
\* the kind of error that the state of a file calls for ("" for none)
ExpectedKind(path, file) ==
    IF ~file.exists THEN "file_not_found"
    ELSE IF GetsizeRaises(path) THEN "unexpected_error"
    ELSE IF file.kind = "empty" THEN "empty_file"
    ELSE IF file.kind = "malformed" THEN "xml_parsing"
    ELSE IF parse_xml(file.root).raised # "" THEN "data_processing"
    ELSE ""

\* C1: every result of process_single is either a success with a record and
\* metrics or an error with the path of the file, one error kind and a
\* detail text that is not empty, and the kind is that of the first stage
\* that fails: file_not_found for a path that does not exist, empty_file for
\* a file of length zero, xml_parsing for a text that is no XML,
\* data_processing when parse_xml or normalize_data raises, and
\* unexpected_error for a failure outside these stages.
ProcessSingleClassifies ==
    \A i \in 1..Len(results) :
        results[i] # NoResult =>
            /\ results[i].status \in {"success", "error"}
            /\ results[i].error_type = ExpectedKind(xml_files[i], TaskFile(i))
            /\ results[i].status = "error" =>
                  /\ results[i].file = xml_files[i]
                  /\ results[i].error_type \in ErrorKinds
                  /\ results[i].error_details # <<>>
                  /\ results[i].data = PyNone
            /\ results[i].status = "success" =>
                  /\ results[i].error_type = ""
                  /\ results[i].data.t = "dict"
                  /\ results[i].metrics.t = "dict"

\* C1, its case: a batch in which a file of length zero has come out as
\* empty_file and a file that is no XML as xml_parsing
EmptyAndMalformedClassified ==
    \E i, j \in 1..Len(results) :
        /\ TaskFile(i).exists /\ TaskFile(i).kind = "empty"
        /\ results[i].error_type = "empty_file"
        /\ TaskFile(j).exists /\ TaskFile(j).kind = "malformed"
        /\ results[j].error_type = "xml_parsing"

\* C2: when process_files has returned, error_stats of the processor that
\* ran it holds, for every error kind, the number of results of that kind
ErrorStatsCountResults ==
    pc = "done" =>
        \A k \in ErrorKinds :
            error_stats[k] =
                Cardinality({i \in 1..Len(results) : results[i].error_type = k})

\* a task whose file is a well-formed invoice document that can be read
ValidTask(i) ==
    /\ TaskFile(i).exists
    /\ TaskFile(i).kind = "xml"
    /\ ~GetsizeRaises(xml_files[i])
Rows(written) == {written[1].rows[j] : j \in 1..Len(written[1].rows)}

\* C3: when process_files has returned from a batch, every discovered file
\* has one result, every result is in one of the two lists, the record of
\* every valid file is in the output file and every failed file is in the
\* error report
PartialOutputWritten ==
    pc = "done" /\ xml_files # <<>> =>
        /\ Len(results) = Len(xml_files)
        /\ \A i \in 1..Len(results) : results[i].status \in {"success", "error"}
        /\ returned[1] + returned[2] = Len(xml_files)
        /\ \A i \in 1..Len(results) :
              IF ValidTask(i)
              THEN /\ results[i].status = "success"
                   /\ output_file # <<>>
                   /\ results[i].data \in Rows(output_file)
              ELSE /\ results[i].status = "error"
                   /\ error_file # <<>>
                   /\ results[i] \in Rows(error_file)

\* C4: parse_fattura gives the same record for a document written with a
\* namespace and for the same document written without one, and the tag
\* that the ns helper builds is the tag of the element in the namespace
NamespaceTolerant ==
    /\ fattura_ns # Unset =>
          ns(Namespace(Tag(NsUri, "FatturaElettronica")), "Data") = Tag(NsUri, "Data")
    /\ fattura_plain # Unset /\ fattura_ns # Unset => fattura_ns = fattura_plain

\* C5: a document with no payment block gives a record that has the key of
\* the payment section with an empty value, from parse_fattura and from
\* process_single, which ends in success
MissingSectionYieldsRecord ==
    invoice.payment = <<>> =>
        /\ fattura_plain # Unset =>
              /\ HasKey(fattura_plain, "payment_details")
              /\ Get(fattura_plain, "payment_details") = PyDict(<<>>)
        /\ advanced # NoResult =>
              /\ advanced.status = "success"
              /\ HasKey(advanced.data, "payment")
              /\ Get(advanced.data, "payment") = PyDict(<<>>)

\* C6: clean_data of what clean_data returned is what clean_data returned
CleanDataIdempotent == cleaned_twice # Unset => cleaned_twice = cleaned

\* some dict inside v has an entry whose value is '', None or 0
RECURSIVE HoldsPruned(_)
HoldsPruned(v) ==
    \/ v.t = "dict" /\ \E i \in 1..Len(v.kids) : IsPruned(v.kids[i].v)
    \/ v.t \in {"dict", "list"} /\ \E i \in 1..Len(v.kids) : HoldsPruned(v.kids[i].v)

\* C7: no dict at any depth of the record of parse_fattura has an entry
\* whose value is an empty string, None or zero
RecordHoldsNoPruned ==
    /\ fattura_plain # Unset => ~HoldsPruned(fattura_plain)
    /\ fattura_ns # Unset => ~HoldsPruned(fattura_ns)

\* C8: when process_files has returned, no file that extract_zip wrote is
\* left in the temporary directory
ScratchFilesRemoved ==
    pc = "done" => \A p \in TempPaths : ~tmp_files[p].exists

\* the members of the input archives whose names end in .xml, in the order
\* of the inputs and of the archives
XmlMembers ==
    Concat([k \in 1..Len(files) |->
        IF ObjectAt(files[k]).type = "zip"
        THEN SelectSeq(ObjectAt(files[k]).members,
                       LAMBDA m : EndsWith(Lower(m.filename), ".xml"))
        ELSE <<>>])
Candidates == SelectSeq(xml_files, IsTempPath)

\* C9: when discovery is over, the candidates of extract_zip are one for
\* each member whose name ends in .xml, no two of them the same file, and
\* each holds the bytes of its member
OneCandidatePerXmlMember ==
    next_file > Len(files) =>
        /\ Len(Candidates) = Len(XmlMembers)
        /\ \A i, j \in 1..Len(Candidates) : i # j => Candidates[i] # Candidates[j]
        /\ \A i \in 1..Len(Candidates) :
              i <= Len(XmlMembers) => tmp_files[Candidates[i]] = XmlMembers[i].file

\* C10: format_date, and parse_date followed by normalize_date, give back a
\* valid YYYY-MM-DD text as it is, and any other text as it is too
DateCoercionKeepsText ==
    /\ date_basic # Unset => date_basic = PyStr(date_str)
    /\ date_advanced # Unset => date_advanced = PyStr(date_str)

\* what float() reads when the comma is the decimal point and a dot before
\* it separates the thousands
DecimalCommaRead(s) ==
    IF \E i \in 1..Len(s) : s[i] = ","
    THEN PyFloat(Replace(SelectSeq(s, LAMBDA c : c # "."), ",", "."))
    ELSE PyFloat(s)

\* C11: parse_float returns 0.0 for the empty text and for a text that is no
\* number, and reads a text written with a decimal comma with the comma as
\* the decimal point, in the style 1234,56 and in the style 1.234,56
ParseFloatReadsDecimalComma ==
    \A r \in {number_basic, number_advanced} :
        r # Unset =>
            r = PyNum(IF number_str # <<>> /\ DecimalCommaRead(number_str).ok
                      THEN DecimalCommaRead(number_str).f
                      ELSE Zero)

\* the integer that a text of digits writes
Written(digits) == PyNum(Float(IntAt(digits, 1, Len(digits)), 0))
\* the items of the record of parse_fattura
LineItems(fattura) == Get(fattura, "line_items").kids

\* the dict d has v at the key k, or no entry there when v is '', None or 0
Holds(d, k, v) == IF IsPruned(v) THEN ~HasKey(d, k) ELSE HasKey(d, k) /\ Get(d, k) = v

TextOf(opt) == IF opt = <<>> THEN <<>> ELSE opt[1]
\* the supplier of the record of parse_fattura
Supplier(fattura) == Get(Get(fattura, "header"), "supplier")

ItemsOf(d) == Get(d, "line_items").kids
\* the keys of a dict, in its order
KeysOf(d) == [i \in 1..Len(d.kids) |-> d.kids[i].k]
\* the dicts d and e have the same entries but for the key k
SameBut(d, e, k) ==
    \A x \in ({d.kids[i].k : i \in 1..Len(d.kids)}
             \cup {e.kids[i].k : i \in 1..Len(e.kids)}) \ {k} :
        HasKey(d, x) /\ HasKey(e, x) /\ Get(d, x) = Get(e, x)

\* C14: normalize_data sets document.currency to the configured currency
\* exactly when the currency is missing or empty, and the vat_rate of a line
\* item to the configured rate exactly when it is missing or zero; a given
\* currency, a vat_rate that is not zero, every other field of a line item
\* and of the document, and every other section stay as they were; in the
\* result the currency is not empty and no line item has a vat_rate of zero
NormalizeFillsDefaultsOnly ==
    normalized # Unset =>
        /\ KeysOf(normalized) = KeysOf(raw_record)
        /\ \A k \in {"header", "tax"} : Get(normalized, k) = Get(raw_record, k)
        /\ HasKey(raw_record, "document") =>
              /\ SameBut(Get(normalized, "document"), Get(raw_record, "document"),
                         "currency")
              /\ Get(Get(normalized, "document"), "currency") =
                    (IF Get(Get(raw_record, "document"), "currency")
                            \in {PyNone, PyStr(<<>>)}
                     THEN ConfigCurrency
                     ELSE Get(Get(raw_record, "document"), "currency"))
              /\ Get(Get(normalized, "document"), "currency") # PyStr(<<>>)
        /\ HasKey(raw_record, "line_items") =>
              /\ Len(ItemsOf(normalized)) = Len(ItemsOf(raw_record))
              /\ \A i \in 1..Len(ItemsOf(raw_record)) :
                    /\ SameBut(ItemsOf(normalized)[i].v, ItemsOf(raw_record)[i].v,
                               "vat_rate")
                    /\ Get(ItemsOf(normalized)[i].v, "vat_rate") =
                          (IF Get(ItemsOf(raw_record)[i].v, "vat_rate")
                                  \in {PyNone, PyNum(Zero)}
                           THEN ConfigDefaultVatRate
                           ELSE Get(ItemsOf(raw_record)[i].v, "vat_rate"))
                    /\ Get(ItemsOf(normalized)[i].v, "vat_rate") # PyNum(Zero)

\* C14, its case: an empty currency and a vat_rate of zero have become the
\* configured ones, next to a line item that keeps its vat_rate of 10
DefaultsFilledNextToGiven ==
    /\ normalized # Unset
    /\ Get(Get(raw_record, "document"), "currency") = PyStr(<<>>)
    /\ Get(Get(normalized, "document"), "currency") = ConfigCurrency
    /\ Len(ItemsOf(raw_record)) = 2
    /\ Get(ItemsOf(raw_record)[1].v, "vat_rate") = PyNum(Zero)
    /\ Get(ItemsOf(normalized)[1].v, "vat_rate") = ConfigDefaultVatRate
    /\ Get(ItemsOf(raw_record)[2].v, "vat_rate") = PyNum(Float(10, 0))
    /\ Get(ItemsOf(normalized)[2].v, "vat_rate") = PyNum(Float(10, 0))

====
